---- MODULE Spec2Model ----
(***************************************************************************)
(* Model of generate_index.py: fetch a JSON mapping of data-attribute      *)
(* templates, normalise it to Rows, sort, render one HTML page, write it.  *)
(*                                                                         *)
(* Text is a sequence of one-character strings.  HTML output is a sequence *)
(* of chunks: a chunk is either one character copied from the input, one   *)
(* entity produced by html.escape, or one literal piece of markup that the *)
(* program emits from its own f-strings.                                   *)
(***************************************************************************)
EXTENDS Integers, Sequences, FiniteSets, TLC

\* ------------------------------------------------------------------ bounds
MaxPieces == 3
MaxEntries == 3

\* ------------------------------------------------------------ characters
\* Code points 32..126 in order; Ord gives the code point str comparison uses.
\* (Code point 96 is held by a name: the grave accent cannot be written in a
\* string here, and no modelled text contains it.)
Printable ==
  << " ", "!", "\"", "#", "$", "%", "&", "'", "(", ")", "*", "+", ",", "-", ".", "/",
     "0", "1", "2", "3", "4", "5", "6", "7", "8", "9", ":", ";", "<", "=", ">", "?",
     "@", "A", "B", "C", "D", "E", "F", "G", "H", "I", "J", "K", "L", "M", "N", "O",
     "P", "Q", "R", "S", "T", "U", "V", "W", "X", "Y", "Z", "[", "\\", "]", "^", "_",
     "grave", "a", "b", "c", "d", "e", "f", "g", "h", "i", "j", "k", "l", "m", "n", "o",
     "p", "q", "r", "s", "t", "u", "v", "w", "x", "y", "z", "{", "|", "}", "~" >>

CodePoint ==
  [c \in {Printable[i] : i \in 1..Len(Printable)} \cup {"\t", "\n"} |->
     IF c = "\t" THEN 9
     ELSE IF c = "\n" THEN 10
     ELSE 31 + (CHOOSE i \in 1..Len(Printable) : Printable[i] = c)]

\* ord(c)
Ord(c) == CodePoint[c]

IsSpace(c) == c \in {" ", "\t", "\n"}
IsUpper(c) == Ord(c) \in 65..90
IsAlpha(c) == Ord(c) \in (65..90) \cup (97..122)
IsDigit(c) == Ord(c) \in 48..57

\* str.lower on one character
LowerChar(c) == IF IsUpper(c) THEN Printable[Ord(c) + 32 - 31] ELSE c

\* str.lower
Lower(s) == [i \in 1..Len(s) |-> LowerChar(s[i])]

\* The least element of a set of indices, or d when the set is empty
MinOr(S, d) == IF S = {} THEN d ELSE CHOOSE i \in S : \A j \in S : i <= j
MaxOr(S, d) == IF S = {} THEN d ELSE CHOOSE i \in S : \A j \in S : j <= i

NonSpace(s) == {i \in 1..Len(s) : ~IsSpace(s[i])}

\* str.strip
Strip(s) == SubSeq(s, MinOr(NonSpace(s), 1), MaxOr(NonSpace(s), 0))

\* str.startswith(prefix)
StartsWith(s, p) == Len(s) >= Len(p) /\ SubSeq(s, 1, Len(p)) = p

\* str < str : lexicographic by code point
StrLess(a, b) ==
  \/ /\ Len(a) < Len(b)
     /\ SubSeq(b, 1, Len(a)) = a
  \/ \E i \in 1..Len(a) :
        /\ i <= Len(b)
        /\ SubSeq(a, 1, i - 1) = SubSeq(b, 1, i - 1)
        /\ Ord(a[i]) < Ord(b[i])

\* --------------------------------------------------------------- regexes
NoMatch == [matched |-> FALSE, name |-> << >>, rest |-> << >>]

IsNameStart(c) == IsAlpha(c) \/ c = "*"
IsNameChar(c) == IsAlpha(c) \/ IsDigit(c) \/ c \in {"-", "*"}

\* DATA_BODY_RE.match(text): ^data\-(?P<name>[A-Za-z*][A-Za-z0-9\-*]*)(?P<rest>.*)$
\* name is greedy; '.' does not match a newline; '$' matches at the end or
\* just before a newline that ends the string.
\* NameEnd: the index after the last character of name (name starts at 6).
NameEnd(text) == MinOr({i \in 7..Len(text) : ~IsNameChar(text[i])}, Len(text) + 1)

\* What '.*$' has to match: the tail without a newline that ends the string
BeforeFinalNewline(t) ==
  IF t # << >> /\ t[Len(t)] = "\n" THEN SubSeq(t, 1, Len(t) - 1) ELSE t

DataBodyGroups(name, rest) ==
  IF \E i \in 1..Len(rest) : rest[i] = "\n"
  THEN NoMatch
  ELSE [matched |-> TRUE, name |-> name, rest |-> rest]

DataBodySplit(text, e) ==
  DataBodyGroups(SubSeq(text, 6, e - 1), BeforeFinalNewline(SubSeq(text, e, Len(text))))

DATA_BODY_RE(text) ==
  IF StartsWith(text, <<"d", "a", "t", "a", "-">>) /\ Len(text) >= 6 /\ IsNameStart(text[6])
  THEN DataBodySplit(text, NameEnd(text))
  ELSE NoMatch

\* PLACEHOLDER_RE = \$\{\d+:(.+?)\}
\* DigitsEnd: the index after the digits that start at from (\d+ is greedy).
DigitsEnd(s, from) == MinOr({k \in from..Len(s) : ~IsDigit(s[k])}, Len(s) + 1)

\* The closing brace of the label that starts after the colon at c: (.+?)\}
\* takes at least one character and stops at the first brace after it; '.'
\* does not match a newline.  0: none.
LabelEnd(s, c) ==
  MinOr({k \in (c + 2)..Len(s) :
           s[k] = "}" /\ \A m \in (c + 1)..(k - 1) : s[m] # "\n"}, 0)

PlaceholderAfterDigits(s, i, c) ==
  IF c > i + 2 /\ c <= Len(s) /\ s[c] = ":" THEN LabelEnd(s, c) ELSE 0

\* One attempt of PLACEHOLDER_RE anchored at index i of s: the index of the
\* closing brace, or 0 when the pattern does not match there.
PlaceholderEnd(s, i) ==
  IF i + 1 <= Len(s) /\ s[i] = "$" /\ s[i + 1] = "{"
  THEN PlaceholderAfterDigits(s, i, DigitsEnd(s, i + 2))
  ELSE 0

\* The label (group 1) of the match that starts at i and ends at e.
PlaceholderLabel(s, i, e) == SubSeq(s, DigitsEnd(s, i + 2) + 1, e - 1)

\* Start of the leftmost match at or after index from, or 0 (regex search).
PlaceholderSearch(s, from) ==
  MinOr({i \in from..Len(s) : PlaceholderEnd(s, i) # 0}, 0)

RECURSIVE PlaceholderSubFrom(_, _)
\* The text from index last on, the match found at i (0: none) replaced by
\* its label, and so on after it.
PlaceholderSubAt(s, last, i) ==
  IF i = 0 THEN SubSeq(s, last, Len(s))
  ELSE SubSeq(s, last, i - 1) \o PlaceholderLabel(s, i, PlaceholderEnd(s, i))
         \o PlaceholderSubFrom(s, PlaceholderEnd(s, i) + 1)

PlaceholderSubFrom(s, last) == PlaceholderSubAt(s, last, PlaceholderSearch(s, last))

\* PLACEHOLDER_RE.sub(lambda m: m.group(1), s)
PlaceholderSub(s) == PlaceholderSubFrom(s, 1)

SortKeyBase(text, m) == IF m.matched THEN m.name \o m.rest ELSE text

\* _sort_key_body
_sort_key_body(text) ==
  Lower(Strip(PlaceholderSub(SortKeyBase(text, DATA_BODY_RE(text)))))

\* ------------------------------------------------------------- rendering
\* html.escape(ch, quote=True) of one character: one chunk
EscapeChar(c) ==
  CASE c = "&" -> "&amp;"
    [] c = "<" -> "&lt;"
    [] c = ">" -> "&gt;"
    [] c = "\"" -> "&quot;"
    [] c = "'" -> "&#x27;"
    [] OTHER -> c

\* html.escape(s, quote=True)
html_escape(s) == [i \in 1..Len(s) |-> EscapeChar(s[i])]

HttpsPrefix == <<"h", "t", "t", "p", "s", ":", "/", "/">>

\* Optional[str]: None is the empty tuple, a string s is <<s>>
None == << >>
Some(s) == <<s>>

\* Row(body, description, href)
Row(b, d, h) == [body |-> b, description |-> d, href |-> h]

RECURSIVE _escape_and_style(_)
_escape_and_style(seg) ==
  IF seg = << >> THEN << >>
  ELSE (IF Head(seg) = "="
        THEN <<"<span class=\"text-gray-600\">", "=", "</span>">>
        ELSE <<EscapeChar(Head(seg))>>)
       \o _escape_and_style(Tail(seg))

\* Variant of render_placeholders_at: shows the whole token (m.group(0))
\* instead of the label.
RECURSIVE render_placeholders_from(_, _)
render_placeholders_whole_token(s, last, i) ==
  IF i = 0 THEN _escape_and_style(SubSeq(s, last, Len(s)))
  ELSE _escape_and_style(SubSeq(s, last, i - 1))
         \o <<"<span class=\"italic\">">>
         \o html_escape(SubSeq(s, i, PlaceholderEnd(s, i)))
         \o <<"</span>">>
         \o render_placeholders_from(s, PlaceholderEnd(s, i) + 1)

\* The loop of _render_placeholders from index last on, the next match of
\* finditer being at i (0: none).
render_placeholders_at(s, last, i) ==
  IF i = 0 THEN _escape_and_style(SubSeq(s, last, Len(s)))
  ELSE _escape_and_style(SubSeq(s, last, i - 1))
         \o <<"<span class=\"italic\">">>
         \o html_escape(PlaceholderLabel(s, i, PlaceholderEnd(s, i)))
         \o <<"</span>">>
         \o render_placeholders_from(s, PlaceholderEnd(s, i) + 1)

render_placeholders_from(s, last) ==
  render_placeholders_at(s, last, PlaceholderSearch(s, last))

_render_placeholders(s) == render_placeholders_from(s, 1)

format_body_match(body, m) ==
  IF ~m.matched THEN _render_placeholders(body)
  ELSE <<"<span class=\"font-medium\">">> \o html_escape(m.name) \o <<"</span>">>
         \o _render_placeholders(m.rest)

format_body_html(body) == format_body_match(body, DATA_BODY_RE(body))

\* Variant of anchor_wrap: the href is put into the attribute as it is.
anchor_wrap_raw_href(inner_html, href) ==
  IF href # None /\ href[1] # << >>
  THEN <<"<a class=\"link no-underline opacity-80 hover:opacity-100 hover:underline\" target=\"_blank\" rel=\"noopener noreferrer\" href=\"">>
         \o href[1] \o <<"\">">> \o inner_html \o <<"</a>">>
  ELSE inner_html

anchor_wrap(inner_html, href) ==
  IF href # None /\ href[1] # << >>
  THEN <<"<a class=\"link no-underline opacity-80 hover:opacity-100 hover:underline\" target=\"_blank\" rel=\"noopener noreferrer\" href=\"">>
         \o html_escape(href[1]) \o <<"\">">> \o inner_html \o <<"</a>">>
  ELSE inner_html

\* One element of body_rows
render_row(r) ==
  <<"<tr class=\"group transition-colors\">",
    "<td class=\"align-top whitespace-pre-wrap py-1 px-2 group-hover:bg-gray-50\">">>
    \o anchor_wrap(format_body_html(r.body), r.href)
    \o <<"</td>", "<td class=\"align-top py-1 px-2 group-hover:bg-gray-50\">">>
    \o anchor_wrap(html_escape(r.description), r.href)
    \o <<"</td>", "</tr>">>

\* "\n".join(body_rows)
RECURSIVE join_rows(_)
join_rows(rs) ==
  IF rs = << >> THEN << >>
  ELSE IF Len(rs) = 1 THEN render_row(rs[1])
  ELSE render_row(rs[1]) \o <<"\n">> \o join_rows(Tail(rs))

\* generated_at.strftime("%Y-%m-%d %H:%M UTC"): digits, '-', ':', ' ' and
\* "UTC" only, so html_escape leaves it as it is; kept as one chunk.
Timestamps == {"2025-01-01 00:00 UTC", "2025-01-01 00:01 UTC"}

render_html(rs, generated_at) ==
  <<"<!DOCTYPE html><html lang=\"en\" data-theme=\"light\"><head>...</head><body>...<table class=\"table table-zebra text-lg\"><tbody>">>
    \o join_rows(rs)
    \o <<"</tbody></table></div><footer class=\"mt-8 text-sm text-gray-200\">Generated on ",
         generated_at,
         "</footer>...</body></html>">>

\* ------------------------------------------------------------ JSON values
\* A parsed JSON value carries the name of its Python type in t.
JNone == [t |-> "NoneType"]
JInt == [t |-> "int"]
JStr(s) == [t |-> "str", v |-> s]
JList(items) == [t |-> "list", v |-> items]
JDict(fields) == [t |-> "dict", v |-> fields]

\* dict.get(k)
Get(d, k) == IF k \in DOMAIN d.v THEN d.v[k] ELSE JNone

PRO_FEATURES ==
  { <<"d", "a", "t", "a", "-", "c", "u", "s", "t", "o", "m", "-", "v", "a", "l", "i", "d", "i", "t", "y">>,
    <<"d", "a", "t", "a", "-", "o", "n", "-", "r", "a", "f">>,
    <<"d", "a", "t", "a", "-", "o", "n", "-", "r", "e", "s", "i", "z", "e">>,
    <<"d", "a", "t", "a", "-", "p", "e", "r", "s", "i", "s", "t">>,
    <<"d", "a", "t", "a", "-", "q", "u", "e", "r", "y", "-", "s", "t", "r", "i", "n", "g">>,
    <<"d", "a", "t", "a", "-", "r", "e", "p", "l", "a", "c", "e", "-", "u", "r", "l">>,
    <<"d", "a", "t", "a", "-", "s", "c", "r", "o", "l", "l", "-", "i", "n", "t", "o", "-", "v", "i", "e", "w">>,
    <<"d", "a", "t", "a", "-", "v", "i", "e", "w", "-", "t", "r", "a", "n", "s", "i", "t", "i", "o", "n">> }

\* Variant of StartsWithPro: exact match instead of prefix match.
StartsWithPro_exact(b) == b \in PRO_FEATURES

\* b.startswith(PRO_FEATURES)
StartsWithPro(b) == \E p \in PRO_FEATURES : StartsWith(b, p)

\* url.lower().startswith(("http://", "https://")) and url
IsHttpUrl(url) ==
  /\ \/ StartsWith(Lower(url), <<"h", "t", "t", "p", ":", "/", "/">>)
     \/ StartsWith(Lower(url), HttpsPrefix)
  /\ url # << >>

\* Variant of first_ref_url_loop: looks at the first element only.
first_ref_url_first_only(refs) ==
  IF refs = << >> THEN None
  ELSE LET ref == Head(refs)
           url == IF ref.t = "dict" THEN Get(ref, "url") ELSE JNone
       IN IF url.t = "str" /\ IsHttpUrl(Strip(url.v))
          THEN Some(Strip(url.v))
          ELSE None

RECURSIVE first_ref_url_loop(_)
first_ref_url_loop(refs) ==
  IF refs = << >> THEN None
  ELSE LET ref == Head(refs)
           url == IF ref.t = "dict" THEN Get(ref, "url") ELSE JNone
       IN IF url.t = "str" /\ IsHttpUrl(Strip(url.v))
          THEN Some(Strip(url.v))
          ELSE first_ref_url_loop(Tail(refs))

_first_ref_url(references) ==
  IF references.t # "list" THEN None ELSE first_ref_url_loop(references.v)

\* warn(msg): one line on standard error
warn(key, msg) == <<"[warn] ", "Skipping '", key, msg>>

\* Variant of to_rows_entry: body and description are only checked to be
\* strings, not to be non-blank.
to_rows_entry_noblank(key, value) ==
  IF value.t # "dict"
  THEN [row |-> None, warning |-> Some(warn(key, "': expected object, got " \o value.t))]
  ELSE LET body == Get(value, "body")
           desc == Get(value, "description")
           refs == Get(value, "references")
       IN IF body.t # "str"
          THEN [row |-> None, warning |-> Some(warn(key, "': missing or invalid 'body'"))]
          ELSE IF desc.t # "str"
          THEN [row |-> None, warning |-> Some(warn(key, "': missing or invalid 'description'"))]
          ELSE IF StartsWithPro(Strip(body.v))
          THEN [row |-> None, warning |-> None]
          ELSE [row |-> Some(Row(Strip(body.v), Strip(desc.v), _first_ref_url(refs))),
                warning |-> None]

\* One iteration of the loop of to_rows over (key, value): the Row appended
\* and the warning printed, each possibly absent.
to_rows_entry(key, value) ==
  IF value.t # "dict"
  THEN [row |-> None, warning |-> Some(warn(key, "': expected object, got " \o value.t))]
  ELSE LET body == Get(value, "body")
           desc == Get(value, "description")
           refs == Get(value, "references")
       IN IF body.t # "str" \/ Strip(body.v) = << >>
          THEN [row |-> None, warning |-> Some(warn(key, "': missing or invalid 'body'"))]
          ELSE IF desc.t # "str" \/ Strip(desc.v) = << >>
          THEN [row |-> None, warning |-> Some(warn(key, "': missing or invalid 'description'"))]
          ELSE IF StartsWithPro(Strip(body.v))
          THEN [row |-> None, warning |-> None]
          ELSE [row |-> Some(Row(Strip(body.v), Strip(desc.v), _first_ref_url(refs))),
                warning |-> None]

\* What one iteration adds to what the iterations after it add
LoopAppend(r, rest) ==
  [rows |-> r.row \o rest.rows, warnings |-> r.warning \o rest.warnings]

NothingMore == [rows |-> << >>, warnings |-> << >>]

\* Variant of to_rows_loop: the loop ends at the first invalid entry
\* (break instead of continue).
RECURSIVE to_rows_loop_abort(_)
to_rows_loop_abort(items) ==
  IF items = << >> THEN NothingMore
  ELSE IF to_rows_entry(Head(items).key, Head(items).value).warning # None
  THEN LoopAppend(to_rows_entry(Head(items).key, Head(items).value), NothingMore)
  ELSE LoopAppend(to_rows_entry(Head(items).key, Head(items).value),
                  to_rows_loop_abort(Tail(items)))

\* The loop of to_rows: rows appended and warnings printed, in input order.
RECURSIVE to_rows_loop(_)
to_rows_loop(items) ==
  IF items = << >> THEN NothingMore
  ELSE LoopAppend(to_rows_entry(Head(items).key, Head(items).value),
                  to_rows_loop(Tail(items)))

InsertAt(sorted, r, at) ==
  SubSeq(sorted, 1, at - 1) \o <<r>> \o SubSeq(sorted, at, Len(sorted))

\* Variant of sort_insert: an element goes before the elements of equal key.
sort_insert_unstable(sorted, r) ==
  InsertAt(sorted, r,
           MinOr({i \in 1..Len(sorted) :
                    ~StrLess(_sort_key_body(sorted[i].body), _sort_key_body(r.body))},
                 Len(sorted) + 1))

\* list.sort(key=...) is stable: an element goes after every element whose
\* key is not greater than its own.
sort_insert(sorted, r) ==
  InsertAt(sorted, r,
           MinOr({i \in 1..Len(sorted) :
                    StrLess(_sort_key_body(r.body), _sort_key_body(sorted[i].body))},
                 Len(sorted) + 1))

RECURSIVE rows_sort(_)
rows_sort(rs) ==
  IF rs = << >> THEN << >>
  ELSE sort_insert(rows_sort(SubSeq(rs, 1, Len(rs) - 1)), rs[Len(rs)])

Sorted(r) == [rows |-> rows_sort(r.rows), warnings |-> r.warnings]

\* to_rows(data): the sorted rows and the warnings printed on the way
to_rows(items) == Sorted(to_rows_loop(items))

\* Values an entry of the fetched mapping can have.
EntryPool ==
  << JDict([body |-> JStr(<<"d", "a", "t", "a", "-", "o", "n", "-", "c", "l", "i", "c", "k">>), description |-> JStr(<<"C", "l", "i", "c", "k">>), references |-> JList(<<>>)]),
     JDict([body |-> JStr(<<"D", "a", "t", "a", "-", "O", "n", "-", "B", "l", "u", "r">>), description |-> JStr(<<"B", "l", "u", "r">>), references |-> JList(<<JDict([url |-> JStr(<<"n", "o", "t", "-", "a", "-", "u", "r", "l">>)]), JDict([url |-> JStr(<<"h", "t", "t", "p", "s", ":", "/", "/", "e", ".", "x", "/", "x">>)])>>)]),
     JDict([body |-> JStr(<<"d", "a", "t", "a", "-", "O", "N", "-", "c", "l", "i", "c", "k">>), description |-> JStr(<<"b", "<", "&">>), references |-> JList(<<JInt, JDict([url |-> JInt]), JDict([nourl |-> JStr(<<"h", "t", "t", "p", ":", "/", "/", "n">>)]), JDict([url |-> JStr(<<" ", "H", "T", "T", "P", ":", "/", "/", "a", "?", "b", "=", "\"", "'", "&", "<", ">", " ">>)]), JDict([url |-> JStr(<<"h", "t", "t", "p", "s", ":", "/", "/", "z">>)])>>)]),
     JDict([body |-> JStr(<<" ", "d", "a", "t", "a", "-", "o", "n", "-", "$", "{", "1", ":", "e", "v", "e", "n", "t", "}", "\n">>), description |-> JStr(<<" ", "a", "=", "1", " ">>), references |-> JDict([url |-> JStr(<<"h", "t", "t", "p", "s", ":", "/", "/", "e", ".", "x", "/", "x">>)])]),
     JStr(<<"d", "a", "t", "a", "-", "o", "n", "-", "c", "l", "i", "c", "k">>),
     JDict([body |-> JInt, description |-> JInt]),
     JDict([body |-> JStr(<<" ", "\n">>), description |-> JStr(<<"b", "l", "a", "n", "k", " ", "b", "o", "d", "y">>)]),
     JDict([body |-> JStr(<<"d", "a", "t", "a", "-", "b", "i", "n", "d">>), description |-> JStr(<<" ", "\t">>)]),
     JDict([body |-> JStr(<<"d", "a", "t", "a", "-", "p", "e", "r", "s", "i", "s", "t">>)]),
     JDict([body |-> JStr(<<" ", "d", "a", "t", "a", "-", "p", "e", "r", "s", "i", "s", "t", "-", "e", "x", "t", "r", "a">>), description |-> JStr(<<"p", "r", "o">>)]),
     JDict([body |-> JStr(<<"d", "a", "t", "a", "-", "p", "e", "r", "s", "i", "s", "t", "e", "n", "t">>), description |-> JStr(<<"p", "r", "o">>), references |-> JList(<<JDict([url |-> JStr(<<"h", "t", "t", "p", "s", ":", "/", "/", "e", ".", "x", "/", "p">>)])>>)]),
     JDict([body |-> JStr(<<"d", "a", "t", "a", "-", "n", "o", "n", "p", "e", "r", "s", "i", "s", "t">>), description |-> JStr(<<"k", "e", "p", "t">>), references |-> JList(<<JDict([url |-> JStr(<<"f", "t", "p", ":", "/", "/", "e", ".", "x">>)]), JDict([url |-> JStr(<<>>)])>>)]) >>

\* The fetched mappings: up to MaxEntries entries in document order, keys distinct.
Keys == <<"k1", "k2", "k3", "k4", "k5">>

Mappings ==
  { [i \in 1..n |-> [key |-> Keys[i], value |-> EntryPool[f[i]]]] :
      f \in [1..MaxEntries -> 1..Len(EntryPool)], n \in 0..MaxEntries }

\* ------------------------------------------------------------------ state
VARIABLES
  pc,        \* main: the call main is about to make, or "exited"
  data,      \* the mapping fetch_json returned, in document order
  rows,      \* list[Row]
  html,      \* the rendered document
  prior,     \* index.html as it was before the run (None: no such file)
  file,      \* index.html on disk
  stderr,    \* lines written to standard error
  stdout,    \* lines written to standard output
  exitCode,  \* exit status of the process, None while it runs
  writes,    \* number of calls of write_file
  stages,    \* the calls of main that have returned, in order
  text,      \* text spec: the body under test
  tpc,       \* text spec: "input", "keyed", "formatted", "rendered"
  key,       \* text spec: _sort_key_body(text)
  cell       \* text spec: format_body_html(text)

mainvars == <<pc, data, prior, file, stderr, stdout, exitCode, writes, stages>>
textvars == <<text, tpc, key, cell>>
vars == <<pc, data, rows, html, prior, file, stderr, stdout, exitCode, writes, stages,
          text, tpc, key, cell>>

\* ------------------------------------------------- pure functions on text
\* Bodies are built from these pieces; a Row's body is trimmed and not empty.
Pieces ==
  << <<"d", "a", "t", "a", "-">>,
     <<"D", "a", "t", "a", "-">>,
     <<"o", "n", "-">>,
     <<"-">>,
     <<"$", "{", "1", ":", "e", "v", "}">>,
     <<"$", "{">>,
     <<"1", ":">>,
     <<"}">>,
     <<"=">>,
     <<"<">>,
     <<"&">>,
     <<" ">>,
     <<"\n">>,
     <<"\"">>,
     <<"X">>,
     <<"'">>,
     <<">">> >>

RECURSIVE Flatten(_)
Flatten(ss) == IF ss = << >> THEN << >> ELSE Head(ss) \o Flatten(Tail(ss))

Texts ==
  { t \in { Flatten([i \in 1..n |-> Pieces[f[i]]]) :
              f \in [1..MaxPieces -> 1..Len(Pieces)], n \in 1..MaxPieces } :
      t # << >> /\ Strip(t) = t }

TextInit ==
  /\ text \in Texts
  /\ tpc = "input"
  /\ key = << >>
  /\ cell = << >>
  /\ rows = << >>
  /\ html = << >>
  /\ pc = "idle"
  /\ data = << >>
  /\ prior = None
  /\ file = None
  /\ stderr = << >>
  /\ stdout = << >>
  /\ exitCode = None
  /\ writes = 0
  /\ stages = << >>

SortKey ==
  /\ tpc = "input"
  /\ key' = _sort_key_body(text)
  /\ tpc' = "keyed"
  /\ UNCHANGED <<text, cell, rows, html, mainvars>>

FormatBody ==
  /\ tpc = "keyed"
  /\ cell' = format_body_html(text)
  /\ tpc' = "formatted"
  /\ UNCHANGED <<text, key, rows, html, mainvars>>

RenderRow ==
  /\ tpc = "formatted"
  /\ \E linked \in BOOLEAN, now \in Timestamps :
       /\ rows' = <<Row(text, text, IF linked THEN Some(HttpsPrefix \o text) ELSE None)>>
       /\ html' = render_html(rows', now)
  /\ tpc' = "rendered"
  /\ UNCHANGED <<text, key, cell, mainvars>>

TextNext == SortKey \/ FormatBody \/ RenderRow

SpecText == TextInit /\ [][TextNext]_vars

\* ---------------------------------------------------------------- main
Init ==
  /\ pc = "fetch_json"
  /\ data = << >>
  /\ rows = << >>
  /\ html = << >>
  /\ prior \in {None, Some(<<"(index.html of an earlier run)">>)}
  /\ file = prior
  /\ stderr = << >>
  /\ stdout = << >>
  /\ exitCode = None
  /\ writes = 0
  /\ stages = << >>
  /\ text = << >>
  /\ tpc = "idle"
  /\ key = << >>
  /\ cell = << >>

\* main's handler: except (RuntimeError, ValueError) as e: print Error, return 1
main_except(msg) ==
  /\ stderr' = Append(stderr, <<"Error: ", msg>>)
  /\ exitCode' = Some(1)
  /\ pc' = "exited"

\* An exception main does not catch leaves main: the interpreter prints the
\* traceback and the process ends with status 1.
main_uncaught(exc) ==
  /\ stderr' = Append(stderr, <<"Traceback (most recent call last):", exc>>)
  /\ exitCode' = Some(1)
  /\ pc' = "exited"

\* fetch_json: urlopen raises HTTPError (a non-2xx status)
FetchHTTPError ==
  /\ pc = "fetch_json"
  /\ \E status \in {"404 while fetching JSON: Not Found",
                    "500 while fetching JSON: Internal Server Error"} :
       main_except("HTTP error " \o status)
  /\ UNCHANGED <<data, rows, html, prior, file, stdout, writes, stages, textvars>>

\* fetch_json: urlopen raises URLError (the request could not be sent:
\* connection refused, name resolution, TLS handshake, connect timeout)
FetchURLError ==
  /\ pc = "fetch_json"
  /\ \E reason \in {"[Errno 111] Connection refused",
                    "[Errno -2] Name or service not known",
                    "[SSL: CERTIFICATE_VERIFY_FAILED]",
                    "timed out"} :
       main_except("Network error while fetching JSON: " \o reason)
  /\ UNCHANGED <<data, rows, html, prior, file, stdout, writes, stages, textvars>>

\* fetch_json: the with-block raises an exception that is neither HTTPError
\* nor URLError: a timeout or a reset while waiting for or reading the
\* response, a short body, an unknown charset in decode.  No except clause of
\* fetch_json or main matches it.
FetchOtherError ==
  /\ pc = "fetch_json"
  /\ \E exc \in {"TimeoutError: timed out",
                  "http.client.RemoteDisconnected",
                  "http.client.IncompleteRead",
                  "LookupError: unknown encoding"} :
       main_uncaught(exc)
  /\ UNCHANGED <<data, rows, html, prior, file, stdout, writes, stages, textvars>>

\* Variant of FetchMalformed: the output file is opened for writing before
\* the document is fetched.
FetchMalformed_truncating ==
  /\ pc = "fetch_json"
  /\ \E msg \in {"Expecting value", "Unterminated string starting at"} :
       main_except("Malformed JSON: " \o msg)
  /\ file' = Some(<< >>)
  /\ UNCHANGED <<data, rows, html, prior, stdout, writes, stages, textvars>>

\* fetch_json: json.loads raises JSONDecodeError
FetchMalformed ==
  /\ pc = "fetch_json"
  /\ \E msg \in {"Expecting value", "Unterminated string starting at"} :
       main_except("Malformed JSON: " \o msg)
  /\ UNCHANGED <<data, rows, html, prior, file, stdout, writes, stages, textvars>>

\* fetch_json: the parsed value is not a dict
FetchNotObject ==
  /\ pc = "fetch_json"
  /\ \E top \in {"list", "str", "int", "NoneType"} :
       main_except("Unexpected JSON structure: expected an object at top-level")
  /\ UNCHANGED <<data, rows, html, prior, file, stdout, writes, stages, textvars>>

\* fetch_json returns the mapping
FetchOk ==
  /\ pc = "fetch_json"
  /\ data' \in Mappings
  /\ stages' = Append(stages, "fetch_json")
  /\ pc' = "to_rows"
  /\ UNCHANGED <<rows, html, prior, file, stderr, stdout, exitCode, writes, textvars>>

\* What the call of to_rows leaves: its result and the warnings it printed
Returned(r) ==
  /\ rows' = r.rows
  /\ stderr' = stderr \o r.warnings

\* rows = to_rows(data)
ToRows ==
  /\ pc = "to_rows"
  /\ Returned(to_rows(data))
  /\ stages' = Append(stages, "to_rows")
  /\ pc' = "render_html"
  /\ UNCHANGED <<data, html, prior, file, stdout, exitCode, writes, textvars>>

\* html = render_html(rows, generated_at=datetime.now(timezone.utc))
RenderHtml ==
  /\ pc = "render_html"
  /\ \E now \in Timestamps : html' = render_html(rows, now)
  /\ stages' = Append(stages, "render_html")
  /\ pc' = "write_file"
  /\ UNCHANGED <<data, rows, prior, file, stderr, stdout, exitCode, writes, textvars>>

\* write_file succeeds; main prints the count and returns 0
WriteOk ==
  /\ pc = "write_file"
  /\ writes' = writes + 1
  /\ file' = Some(html)
  /\ stages' = Append(stages, "write_file")
  /\ stdout' = Append(stdout, <<"Wrote ", Len(rows), " rows to ", "index.html">>)
  /\ exitCode' = Some(0)
  /\ pc' = "exited"
  /\ UNCHANGED <<data, rows, html, prior, stderr, textvars>>

\* write_file: write_text raises OSError, either before the file is opened
\* (it stays as it was) or after it was opened for writing (truncated).
WriteOSError ==
  /\ pc = "write_file"
  /\ writes' = writes + 1
  /\ \E e \in {[strerror |-> "Permission denied", left |-> file],
                [strerror |-> "No space left on device", left |-> Some(<< >>)]} :
       /\ main_except("Failed to write output file 'index.html': " \o e.strerror)
       /\ file' = e.left
  /\ UNCHANGED <<data, rows, html, prior, stdout, stages, textvars>>

Next ==
  \/ FetchHTTPError
  \/ FetchURLError
  \/ FetchOtherError
  \/ FetchMalformed
  \/ FetchNotObject
  \/ FetchOk
  \/ ToRows
  \/ RenderHtml
  \/ WriteOk
  \/ WriteOSError

Spec == Init /\ [][Next]_vars

\* ============================================================== properties
Range(q) == {q[i] : i \in 1..Len(q)}
Count(q, c) == Cardinality({i \in 1..Len(q) : q[i] = c})

\* An entry has a valid shape: its value is a mapping whose body and
\* description are strings that are not blank after trimming.
StrField(v, k) == k \in DOMAIN v.v /\ v.v[k].t = "str" /\ Strip(v.v[k].v) # << >>
ShapeValid(v) == v.t = "dict" /\ StrField(v, "body") /\ StrField(v, "description")
TrimmedBody(v) == Strip(v.v["body"].v)
TrimmedDescription(v) == Strip(v.v["description"].v)
Denylisted(b) == \E p \in PRO_FEATURES : Len(b) >= Len(p) /\ \A i \in 1..Len(p) : b[i] = p[i]

Invalid == {i \in 1..Len(data) : ~ShapeValid(data[i].value)}
Denied == {i \in 1..Len(data) :
             ShapeValid(data[i].value) /\ Denylisted(TrimmedBody(data[i].value))}
Kept == (1..Len(data)) \ (Invalid \cup Denied)
WarnLines(k) == {j \in 1..Len(stderr) : stderr[j][1] = "[warn] " /\ stderr[j][3] = k}
\* to_rows has just returned: rows is its result, stderr holds its warnings
Normalized == pc = "render_html"
Warnings == {j \in 1..Len(stderr) : stderr[j][1] = "[warn] "}

\* C1: the number of Rows to_rows returns is the number of entries minus the
\* entries of invalid shape minus the shape-valid entries whose trimmed body
\* starts with a denylisted prefix, and every Row has a trimmed, non-empty
\* body and description.
C1_RowCount ==
  Normalized =>
    /\ Len(rows) = Len(data) - Cardinality(Invalid) - Cardinality(Denied)
    /\ \A i \in 1..Len(rows) :
         /\ rows[i].body # << >> /\ Strip(rows[i].body) = rows[i].body
         /\ rows[i].description # << >>
         /\ Strip(rows[i].description) = rows[i].description

C1_Witness ==
  /\ Normalized
  /\ Invalid # {} /\ Denied # {} /\ Len(rows) >= 1
  /\ \E i \in Kept : data[i].value.v["body"].v # TrimmedBody(data[i].value)

\* C2: index.html is written at most once and only after fetch_json, to_rows
\* and render_html have returned; a run that fails in fetch_json (transport,
\* status, JSON syntax, top-level shape) never calls write_file and leaves
\* the file as it was.
C2_WriteLast ==
  /\ writes <= 1
  /\ writes = 1 => /\ Len(stages) >= 3
                   /\ SubSeq(stages, 1, 3) = <<"fetch_json", "to_rows", "render_html">>
  /\ file # prior => writes = 1 /\ file \in {Some(html), Some(<< >>)}
  /\ (pc = "exited" /\ stages = << >>) => (writes = 0 /\ file = prior)

C2_Witness ==
  /\ pc = "exited" /\ writes = 1 /\ file = Some(html) /\ prior # None
  /\ Len(rows) >= 1

\* C3 (as claimed): every fetch, parse, schema or write failure ends the run
\* with exit code 1 and exactly one "Error: " line on standard error, and a
\* run exits with 0 only if the file was written.
C3_OneErrorLine ==
  pc = "exited" =>
    IF "write_file" \in Range(stages)
    THEN exitCode = Some(0) /\ file = Some(html)
    ELSE /\ exitCode = Some(1)
         /\ Cardinality({j \in 1..Len(stderr) : stderr[j][1] = "Error: "}) = 1

\* C4: an entry of invalid shape prints exactly one [warn] line and is
\* dropped, a shape-valid entry prints none, every other entry is still
\* processed, and the run fails only if write_file fails.
C4_WarnNonFatal ==
  /\ Normalized =>
       LET invalid == Invalid
           kept == (1..Len(data)) \ (invalid \cup Denied)
       IN /\ \A i \in 1..Len(data) :
               Cardinality(WarnLines(data[i].key)) = IF i \in invalid THEN 1 ELSE 0
          /\ Cardinality(Warnings) = Cardinality(invalid)
          /\ \A i \in kept : \E j \in 1..Len(rows) :
               /\ rows[j].body = TrimmedBody(data[i].value)
               /\ rows[j].description = TrimmedDescription(data[i].value)
          /\ Len(rows) = Cardinality(kept)
  /\ (pc \in {"write_file", "exited"} /\ "to_rows" \in Range(stages)) =>
       /\ Len(rows) + Cardinality(Warnings) <= Len(data)
       /\ pc = "exited" =>
            \/ exitCode = Some(0)
            \/ exitCode = Some(1) /\ writes = 1 /\ "write_file" \notin Range(stages)

C4_Witness ==
  /\ pc = "exited" /\ exitCode = Some(0)
  /\ Len(data) = MaxEntries /\ Cardinality(Invalid) = 1 /\ Len(rows) = MaxEntries - 1
  /\ 1 \in Invalid
  /\ data[1].value.t = "dict"
  /\ "description" \notin DOMAIN data[1].value.v
  /\ Cardinality(Warnings) = 1

\* C5: the result of to_rows is a permutation of the accepted rows in
\* non-decreasing order of the derived key, rows of equal key keeping the
\* order of their entries, none removed.
Accepted == to_rows_loop(data).rows
KeyOf(r) == _sort_key_body(r.body)

C5_SortedStable ==
  Normalized =>
    LET acc == Accepted
        k == [i \in 1..Len(rows) |-> KeyOf(rows[i])]
    IN /\ Len(rows) = Len(acc)
       /\ \A i, j \in 1..Len(rows) : i < j => ~StrLess(k[j], k[i])
       /\ \E f \in [1..Len(rows) -> 1..Len(rows)] :
            /\ \A i, j \in 1..Len(rows) : i # j => f[i] # f[j]
            /\ \A i \in 1..Len(rows) : rows[i] = acc[f[i]]
            /\ \A i, j \in 1..Len(rows) : (i < j /\ k[i] = k[j]) => f[i] < f[j]

C5_Witness ==
  /\ Normalized
  /\ rows # Accepted
  /\ \E i, j \in 1..Len(rows) :
       i < j /\ KeyOf(rows[i]) = KeyOf(rows[j]) /\ rows[i] # rows[j]

\* C6 (as claimed): changing only the letter case of a body does not change
\* its derived sort key.
C6_CaseInsensitiveKey ==
  tpc \in {"keyed", "formatted", "rendered"} => key = _sort_key_body(Lower(text))

\* C7: a shape-valid entry is dropped, without a warning, exactly when its
\* trimmed body starts with one of the eight denylisted strings; no Row has
\* such a body.
C7_DenylistPrefix ==
  Normalized =>
    /\ Cardinality(PRO_FEATURES) = 8
    /\ \A j \in 1..Len(rows) : ~Denylisted(rows[j].body)
    /\ \A i \in 1..Len(data) :
         ShapeValid(data[i].value) =>
           /\ WarnLines(data[i].key) = {}
           /\ Denylisted(TrimmedBody(data[i].value))
                <=> ~\E j \in 1..Len(rows) : rows[j].body = TrimmedBody(data[i].value)

C7_Witness ==
  /\ Normalized
  /\ \E i \in Denied : TrimmedBody(data[i].value) \notin PRO_FEATURES
  /\ \E j \in 1..Len(rows) :
       rows[j].body = <<"d", "a", "t", "a", "-", "n", "o", "n", "p", "e", "r", "s", "i", "s", "t">>

\* C8: href is the trimmed url of the first element of references that is a
\* mapping with a string url starting, case-insensitively and after
\* trimming, with http:// or https://; there is no href when references is
\* missing, not a list or has no such element, and the entry is accepted
\* all the same.
Qualifies(ref) ==
  /\ ref.t = "dict"
  /\ "url" \in DOMAIN ref.v
  /\ ref.v["url"].t = "str"
  /\ LET u == Lower(Strip(ref.v["url"].v))
     IN \/ Len(u) >= 7 /\ SubSeq(u, 1, 7) = <<"h", "t", "t", "p", ":", "/", "/">>
        \/ Len(u) >= 8 /\ SubSeq(u, 1, 8) = <<"h", "t", "t", "p", "s", ":", "/", "/">>

ExpectedHref(v) ==
  IF "references" \notin DOMAIN v.v \/ v.v["references"].t # "list"
  THEN None
  ELSE LET refs == v.v["references"].v
           qs == {k \in 1..Len(refs) : Qualifies(refs[k])}
       IN IF qs = {} THEN None
          ELSE Some(Strip(refs[CHOOSE k \in qs : \A m \in qs : k <= m].v["url"].v))

C8_FirstReference ==
  Normalized =>
    LET expected == [i \in Kept |->
                       Row(TrimmedBody(data[i].value), TrimmedDescription(data[i].value),
                           ExpectedHref(data[i].value))]
    IN /\ \A i \in DOMAIN expected :
            /\ \E j \in 1..Len(rows) : rows[j] = expected[i]
            /\ WarnLines(data[i].key) = {}
       /\ \A j \in 1..Len(rows) : \E i \in DOMAIN expected : rows[j] = expected[i]

C8_Witness ==
  /\ Normalized
  /\ \E i \in Kept :
       LET v == data[i].value
       IN /\ ExpectedHref(v) # None
          /\ ~Qualifies(v.v["references"].v[1])
          /\ \E j \in 1..Len(rows) : rows[j].href = ExpectedHref(v)
  /\ \E i \in Kept : "references" \in DOMAIN data[i].value.v
                       /\ data[i].value.v["references"].t # "list"

\* ------------------------------------------------ properties of the renderer
Markup ==
  { "<span class=\"text-gray-600\">", "<span class=\"italic\">",
    "<span class=\"font-medium\">", "</span>",
    "<a class=\"link no-underline opacity-80 hover:opacity-100 hover:underline\" target=\"_blank\" rel=\"noopener noreferrer\" href=\"",
    "\">", "</a>",
    "<tr class=\"group transition-colors\">",
    "<td class=\"align-top whitespace-pre-wrap py-1 px-2 group-hover:bg-gray-50\">",
    "<td class=\"align-top py-1 px-2 group-hover:bg-gray-50\">", "</td>", "</tr>",
    "<!DOCTYPE html><html lang=\"en\" data-theme=\"light\"><head>...</head><body>...<table class=\"table table-zebra text-lg\"><tbody>",
    "</tbody></table></div><footer class=\"mt-8 text-sm text-gray-200\">Generated on ",
    "</footer>...</body></html>" }

Special == {"&", "<", ">", "\"", "'"}

\* What a browser shows for an entity
Decode(chunk) ==
  CASE chunk = "&amp;" -> "&"
    [] chunk = "&lt;" -> "<"
    [] chunk = "&gt;" -> ">"
    [] chunk = "&quot;" -> "\""
    [] chunk = "&#x27;" -> "'"
    [] OTHER -> chunk

IsText(chunk) == chunk \notin Markup

\* The text of a fragment: markup removed, entities decoded
VisibleText(h) ==
  LET t == SelectSeq(h, IsText) IN [i \in 1..Len(t) |-> Decode(t[i])]

\* The texts of the italic spans of a fragment, in order
RECURSIVE ItalicSpans(_)
ItalicSpans(h) ==
  LET opens == {i \in 1..Len(h) : h[i] = "<span class=\"italic\">"}
  IN IF opens = {} THEN << >>
     ELSE LET o == CHOOSE i \in opens : \A j \in opens : i <= j
              closes == {i \in (o + 1)..Len(h) : h[i] = "</span>"}
              c == CHOOSE i \in closes : \A j \in closes : i <= j
          IN <<VisibleText(SubSeq(h, o + 1, c - 1))>> \o ItalicSpans(SubSeq(h, c + 1, Len(h)))

\* The labels of the placeholder tokens of a text, in order
RECURSIVE Labels(_)
Labels(s) ==
  LET i == PlaceholderSearch(s, 1)
  IN IF i = 0 THEN << >>
     ELSE LET e == PlaceholderEnd(s, i)
          IN <<PlaceholderLabel(s, i, e)>> \o Labels(SubSeq(s, e + 1, Len(s)))

Formatted == tpc \in {"formatted", "rendered"}

\* C9 (as claimed): the visible text of the rendered attribute cell is the
\* body with each placeholder token replaced by its label, each label in
\* its own styled span.
C9_VisibleIsBody ==
  Formatted => /\ VisibleText(cell) = PlaceholderSub(text)
               /\ ItalicSpans(cell) = Labels(text)

\* C9 (amended): the visible text of the rendered attribute cell is the body
\* without its leading "data-" when the body matches the attribute pattern,
\* the body itself otherwise, with each placeholder token replaced by its
\* label, each label in its own styled span.
C9_VisibleText ==
  Formatted =>
    LET shown == IF DATA_BODY_RE(text).matched THEN SubSeq(text, 6, Len(text)) ELSE text
    IN /\ VisibleText(cell) = PlaceholderSub(shown)
       /\ ItalicSpans(cell) = Labels(text)

C9_Witness ==
  /\ tpc = "formatted"
  /\ text = <<"d", "a", "t", "a", "-", "o", "n", "-", "$", "{", "1", ":", "e", "v", "}">>
  /\ cell = <<"<span class=\"font-medium\">", "o", "n", "-", "</span>",
              "<span class=\"italic\">", "e", "v", "</span>">>

\* C10: every '<', '>', '&', '"' and "'" of a Row's body, description and
\* href is in the document as its entity and nowhere as itself, and the
\* markup of the document is the template, the generated spans and the
\* anchor wrappers only.
C10_Escaped ==
  tpc = "rendered" =>
    LET r == rows[1]
        m == DATA_BODY_RE(r.body)
        shown == IF m.matched THEN SubSeq(r.body, 6, Len(r.body)) ELSE r.body
        labels == Flatten(Labels(r.body))
        links == IF r.href = None THEN 0 ELSE 2
        hrefText == IF r.href = None THEN << >> ELSE r.href[1]
    IN /\ \A i \in 1..Len(html) : html[i] \notin Special
       /\ \A c \in Special :
            Count(html, EscapeChar(c)) =
              Count(r.body, c) + Count(r.description, c) + links * Count(hrefText, c)
       /\ Cardinality({i \in 1..Len(html) : html[i] \in Markup}) =
            3 + 6 + 3 * links
              + (IF m.matched THEN 2 ELSE 0)
              + 2 * Len(Labels(r.body))
              + 2 * (Count(PlaceholderSub(shown), "=") - Count(labels, "="))

C10_Witness ==
  /\ tpc = "rendered"
  /\ rows[1].href # None
  /\ \A c \in {"<", "&", "\""} : Count(rows[1].body, c) = 1
  /\ Count(html, "&lt;") = 4 /\ Count(html, "&amp;") = 4 /\ Count(html, "&quot;") = 4

====
